---------------------------- MODULE Spec2Model ----------------------------
(***************************************************************************)
(* Model of pelix/ipopo/contexts.py: Requirement, FactoryContext and       *)
(* ComponentContext.                                                       *)
(*                                                                         *)
(* Python dictionaries are functions over a finite domain of keys; None    *)
(* and the other Python values are tagged records, so that values of       *)
(* different Python types can be compared.                                 *)
(***************************************************************************)
EXTENDS Integers, Sequences, FiniteSets, TLC

VARIABLES
    f_properties,   \* FactoryContext.properties
    completed,      \* FactoryContext.completed
    callerProps,    \* the dict object the caller handed to ComponentContext()
    component,      \* the ComponentContext the last construction produced
    call,           \* the last ComponentContext() call: arguments and outcome
    handlers,       \* FactoryContext.__handlers
    bundle_context, \* FactoryContext.bundle_context
    pc,             \* per thread: the method it is executing
    frame,          \* per thread: the arguments of that method
    lastRet,        \* the last call that returned, with what it returned
    first,          \* per handler id: the default of the first get_handler
    got,            \* per handler id: the values get_handler has returned
    setSeen,        \* per handler id: set_handler has been called for it
    bc_stores,      \* the values set_bundle_context has stored, in order
    req,            \* the Requirement object at hand (none before the first)
    clean,          \* no set_filter call has failed since the last success
    lastOp          \* the last Requirement operation and its outcome

ctxVars == <<f_properties, completed, callerProps, component, call>>

facVars == <<handlers, bundle_context, pc, frame, lastRet, first, got,
             setSeen, bc_stores>>

reqVars == <<req, clean, lastOp>>

vars == <<ctxVars, facVars, reqVars>>

-----------------------------------------------------------------------------
(* Python dictionaries *)

EmptyDict == <<>>

dict_setitem(d, k, v) ==
    [x \in DOMAIN d \cup {k} |-> IF x = k THEN v ELSE d[x]]

dict_copy(d) == [x \in DOMAIN d |-> d[x]]

dict_update(d, other) ==
    [x \in DOMAIN d \cup DOMAIN other |->
        IF x \in DOMAIN other THEN other[x] ELSE d[x]]

-----------------------------------------------------------------------------
(* Property maps *)

IPOPO_INSTANCE_NAME == "instance.name"

Names == {"inst1", "inst2"}

PropKeys == {IPOPO_INSTANCE_NAME, "level", "color"}

PropVals == Names

PropMaps == UNION {[D -> PropVals] : D \in SUBSET PropKeys}

-----------------------------------------------------------------------------
(* FactoryContext.__init__: the fields the component context reads *)

FactoryContext__init__ ==
    /\ f_properties = EmptyDict
    /\ completed = FALSE

(* Factory manipulation: fills the default properties, then marks the     *)
(* context as completed.                                                  *)
SetDefaultProperty(k, v) ==
    /\ ~completed
    /\ f_properties' = dict_setitem(f_properties, k, v)
    /\ UNCHANGED <<completed, callerProps, component, call, facVars, reqVars>>

Complete ==
    /\ ~completed
    /\ completed' = TRUE
    /\ UNCHANGED <<f_properties, callerProps, component, call, facVars, reqVars>>

-----------------------------------------------------------------------------
(* ComponentContext.__init__ *)

\* the two assertions on the argument types
\* (faulty variant: the properties argument is not tested)
CheckArguments_factoryOnly(fc_is_factory, props_is_dict) == fc_is_factory

CheckArguments(fc_is_factory, props_is_dict) ==
    fc_is_factory /\ props_is_dict

\* properties[constants.IPOPO_INSTANCE_NAME] = name
\* (faulty variant: the name is not written)
ForceInstanceName_skipped(properties, name) == properties

ForceInstanceName(properties, name) ==
    dict_setitem(properties, IPOPO_INSTANCE_NAME, name)

\* self.properties = factory_context.properties.copy()
\* self.properties.update(properties)
\* The result names the new context's dict and the factory's dict, which
\* the copy keeps apart.
\* (faulty variant: the factory dict is updated in place)
MergeProperties_noCopy(defaults, properties) ==
    [self    |-> dict_update(defaults, properties),
     factory |-> dict_update(defaults, properties)]

MergeProperties(defaults, properties) ==
    [self    |-> dict_update(dict_copy(defaults), properties),
     factory |-> defaults]

NoCall == [op |-> "none"]

\* A call ComponentContext(factory_context, name, properties).  The factory
\* argument is the FactoryContext or some other object; the properties
\* argument is a dict holding P, or some other object.
ComponentContext__init__(fc_is_factory, name, props_is_dict, P) ==
    LET args == [op            |-> "ComponentContext",
                 fc_is_factory |-> fc_is_factory,
                 fc_completed  |-> completed,
                 fc_properties |-> f_properties,
                 name          |-> name,
                 props_is_dict |-> props_is_dict,
                 properties    |-> P]
    IN
    IF CheckArguments(fc_is_factory, props_is_dict)
    THEN LET forced == ForceInstanceName(P, name)
             merged == MergeProperties(f_properties, forced)
         IN /\ callerProps' = forced
            /\ component' = {[name |-> name, properties |-> merged.self]}
            /\ f_properties' = merged.factory
            /\ call' = args @@ [status |-> "ok",
                                fc_properties_after |-> merged.factory]
            /\ UNCHANGED <<completed, facVars, reqVars>>
    ELSE \* AssertionError: nothing was assigned, no object results
         /\ callerProps' = P
         /\ component' = {}
         /\ call' = args @@ [status |-> "AssertionError",
                             fc_properties_after |-> f_properties]
         /\ UNCHANGED <<f_properties, completed, facVars, reqVars>>

Create ==
    \E fc_is_factory \in BOOLEAN, name \in Names, props_is_dict \in BOOLEAN,
       P \in PropMaps :
        /\ (~props_is_dict => P = EmptyDict)
        /\ ComponentContext__init__(fc_is_factory, name, props_is_dict, P)

-----------------------------------------------------------------------------
(* FactoryContext: the handler store and the bundle context, used by       *)
(* several threads.  A thread switch can happen between any two bytecodes; *)
(* a call of a built-in dict method on string keys is a single step.       *)

NumThreads == 2

Threads == 1 .. NumThreads

None == "None"

HandlerIds == {"h1", "h2"}

Confs == {"conf1", "conf2"}

BundleContexts == {"bc1", "bc2"}

NotABundleContext == "object"

NoFrame == [op |-> "none"]

NoRet == [op |-> "none"]

\* dict.setdefault(key, default): the new dict and the value returned
\* (faulty variants: d[k] = default on every call; d.get(k, default))
dict_setdefault_overwrite(d, k, default) ==
    [dict |-> dict_setitem(d, k, default), value |-> default]

dict_setdefault_get(d, k, default) ==
    [dict |-> d, value |-> IF k \in DOMAIN d THEN d[k] ELSE default]

dict_setdefault(d, k, default) ==
    IF k \in DOMAIN d
    THEN [dict |-> d, value |-> d[k]]
    ELSE [dict |-> dict_setitem(d, k, default), value |-> default]

\* FactoryContext.get_handler(handler_id, default) is entered
CallGetHandler(t, id, default) ==
    /\ pc[t] = "idle"
    /\ pc' = [pc EXCEPT ![t] = "get_handler"]
    /\ frame' = [frame EXCEPT ![t] =
                    [op |-> "get_handler", id |-> id, default |-> default,
                     absent_at_call |-> id \notin DOMAIN handlers]]
    /\ UNCHANGED <<handlers, bundle_context, lastRet, first, got, setSeen,
                   bc_stores, ctxVars, reqVars>>

\* ComponentContext.get_handler(handler_id) is entered:
\* self.factory_context.get_handler(handler_id, None)
CallComponentGetHandler(t, id) ==
    /\ pc[t] = "idle"
    /\ pc' = [pc EXCEPT ![t] = "get_handler"]
    /\ frame' = [frame EXCEPT ![t] =
                    [op |-> "get_handler", id |-> id, default |-> None,
                     absent_at_call |-> id \notin DOMAIN handlers]]
    /\ UNCHANGED <<handlers, bundle_context, lastRet, first, got, setSeen,
                   bc_stores, ctxVars, reqVars>>

\* return self.__handlers.setdefault(handler_id, default)
\* first and got follow an id until set_handler is called for it.
GetHandler(t) ==
    /\ pc[t] = "get_handler"
    /\ LET id == frame[t].id
           r  == dict_setdefault(handlers, id, frame[t].default)
       IN /\ handlers' = r.dict
          /\ lastRet' = [op        |-> "get_handler",
                         id        |-> id,
                         value     |-> r.value,
                         present   |-> id \in DOMAIN handlers,
                         unchanged |-> r.dict = handlers,
                         differs   |-> r.value # frame[t].default,
                         raced     |-> /\ frame[t].absent_at_call
                                       /\ id \in DOMAIN handlers]
          /\ first' = IF first[id] = "no call" /\ ~setSeen[id]
                      THEN [first EXCEPT ![id] = frame[t].default]
                      ELSE first
          /\ got' = IF setSeen[id] THEN got
                    ELSE [got EXCEPT ![id] = @ \cup {r.value}]
    /\ pc' = [pc EXCEPT ![t] = "idle"]
    /\ frame' = [frame EXCEPT ![t] = NoFrame]
    /\ UNCHANGED <<bundle_context, setSeen, bc_stores, ctxVars, reqVars>>

\* self.__handlers[handler_id] = configuration
SetHandler(t, id, configuration) ==
    /\ pc[t] = "idle"
    /\ handlers' = dict_setitem(handlers, id, configuration)
    /\ setSeen' = [setSeen EXCEPT ![id] = TRUE]
    /\ first' = [first EXCEPT ![id] = "no call"]
    /\ got' = [got EXCEPT ![id] = {}]
    /\ lastRet' = [op |-> "set_handler", id |-> id]
    /\ UNCHANGED <<bundle_context, pc, frame, bc_stores, ctxVars, reqVars>>

\* set_bundle_context: if self.bundle_context is None:
BundleContextIsNone(bc) == bc = None

SetBundleContextCheck(t, ctx) ==
    /\ pc[t] = "idle"
    /\ IF BundleContextIsNone(bundle_context)
       THEN /\ pc' = [pc EXCEPT ![t] = "set_bundle_context"]
            /\ frame' = [frame EXCEPT ![t] =
                            [op |-> "set_bundle_context",
                             bundle_context |-> ctx]]
            /\ UNCHANGED lastRet
       ELSE /\ lastRet' = [op |-> "set_bundle_context", status |-> "ignored"]
            /\ UNCHANGED <<pc, frame>>
    /\ UNCHANGED <<handlers, bundle_context, first, got, setSeen, bc_stores,
                   ctxVars, reqVars>>

\* assert isinstance(bundle_context, BundleContext)
\* self.bundle_context = bundle_context
SetBundleContextAssign(t) ==
    /\ pc[t] = "set_bundle_context"
    /\ IF frame[t].bundle_context \in BundleContexts
       THEN /\ bundle_context' = frame[t].bundle_context
            /\ bc_stores' = Append(bc_stores, frame[t].bundle_context)
            /\ lastRet' = [op |-> "set_bundle_context", status |-> "stored"]
       ELSE /\ lastRet' = [op |-> "set_bundle_context",
                           status |-> "AssertionError"]
            /\ UNCHANGED <<bundle_context, bc_stores>>
    /\ pc' = [pc EXCEPT ![t] = "idle"]
    /\ frame' = [frame EXCEPT ![t] = NoFrame]
    /\ UNCHANGED <<handlers, first, got, setSeen, ctxVars, reqVars>>

\* ComponentContext.get_bundle_context():
\* return self.factory_context.bundle_context
GetBundleContext(t) ==
    /\ pc[t] = "idle"
    /\ lastRet' = [op |-> "get_bundle_context", value |-> bundle_context]
    /\ UNCHANGED <<handlers, bundle_context, pc, frame, first, got, setSeen,
                   bc_stores, ctxVars, reqVars>>

-----------------------------------------------------------------------------
(* The filter engine (pelix.ldapfilter), as far as Requirement uses it.    *)
(* A filter text is a sequence of tokens; a parsed filter is a criterion   *)
(* (name = value) or a conjunction of filters.                             *)

OBJECTCLASS == "objectClass"

NoneValue == [t |-> "None"]

Str(tokens) == [t |-> "str", s |-> tokens]

LDAPCriteria(name, value) ==
    [t |-> "LDAPCriteria", name |-> name, value |-> value]

LDAPFilter(subfilters) ==
    [t |-> "LDAPFilter", operator |-> "&", subfilters |-> subfilters]

SomeOtherObject == [t |-> "int"]

ParseError == [t |-> "ValueError"]

Punctuation == {"(", ")", "=", "&"}

\* str(filter): the text of a parsed filter
RECURSIVE FilterText(_)
FilterText(f) ==
    IF f.t = "LDAPCriteria"
    THEN <<"(", f.name, "=", f.value, ")">>
    ELSE LET RECURSIVE Join(_)
             Join(subs) == IF subs = <<>> THEN <<>>
                           ELSE FilterText(Head(subs)) \o Join(Tail(subs))
         IN <<"(", "&">> \o Join(f.subfilters) \o <<")">>

\* The filter starting at token i: [ok, filter, next], next being the
\* position after it
RECURSIVE ParseAt(_, _)
ParseAt(toks, i) ==
    LET fail == [ok |-> FALSE, filter |-> ParseError, next |-> i]
        RECURSIVE ParseList(_)
        \* the subfilters from token j up to the closing parenthesis
        ParseList(j) ==
            IF j > Len(toks) THEN [ok |-> FALSE, subs |-> <<>>, next |-> j]
            ELSE IF toks[j] = ")" THEN [ok |-> TRUE, subs |-> <<>>, next |-> j + 1]
            ELSE LET one == ParseAt(toks, j)
                 IN IF ~one.ok THEN [ok |-> FALSE, subs |-> <<>>, next |-> j]
                    ELSE LET rest == ParseList(one.next)
                         IN [ok   |-> rest.ok,
                             subs |-> <<one.filter>> \o rest.subs,
                             next |-> rest.next]
    IN
    IF i + 1 > Len(toks) \/ toks[i] # "(" THEN fail
    ELSE IF toks[i + 1] = "&"
    THEN LET l == ParseList(i + 2)
         IN IF l.ok /\ l.subs # <<>>
            THEN [ok |-> TRUE, filter |-> LDAPFilter(l.subs), next |-> l.next]
            ELSE fail
    ELSE IF /\ i + 4 <= Len(toks)
            /\ toks[i + 1] \notin Punctuation
            /\ toks[i + 2] = "="
            /\ toks[i + 3] \notin Punctuation
            /\ toks[i + 4] = ")"
    THEN [ok     |-> TRUE,
          filter |-> LDAPCriteria(toks[i + 1], toks[i + 3]),
          next   |-> i + 5]
    ELSE fail

\* Parsing of a whole text: no filter for the empty text, ValueError for a
\* text that is no filter
ParseText(toks) ==
    IF toks = <<>> THEN NoneValue
    ELSE LET r == ParseAt(toks, 1)
         IN IF r.ok /\ r.next = Len(toks) + 1 THEN r.filter ELSE ParseError

\* ldapfilter.get_ldap_filter: None and parsed filters as they are, a text
\* parsed
get_ldap_filter(x) ==
    IF x.t = "str" THEN ParseText(x.s) ELSE x

\* ldapfilter.combine_filters: the entries that are no filter are dropped; a
\* single filter is returned as it is, several are joined by AND
combine_filters(filters) ==
    LET parsed == [i \in DOMAIN filters |-> get_ldap_filter(filters[i])]
        kept   == SelectSeq(parsed, LAMBDA f : f.t # "None")
    IN IF \E i \in DOMAIN parsed : parsed[i].t = "ValueError" THEN ParseError
       ELSE IF kept = <<>> THEN NoneValue
       ELSE IF Len(kept) = 1 THEN kept[1]
       ELSE LDAPFilter(kept)

\* filter.matches(properties)
RECURSIVE FilterMatches(_, _)
FilterMatches(f, properties) ==
    IF f.t = "LDAPCriteria"
    THEN f.name \in DOMAIN properties /\ properties[f.name] = f.value
    ELSE \A i \in DOMAIN f.subfilters :
            FilterMatches(f.subfilters[i], properties)

-----------------------------------------------------------------------------
(* Requirement *)

Specifications == {"svc.Foo", "svc.Bar"}

\* The filters handed to Requirement() and set_filter(): none, texts (empty,
\* well-formed, truncated), parsed filters, and an object of another type
FilterArguments ==
    { NoneValue,
      Str(<<>>),
      Str(<<"(", "color", "=", "red", ")">>),
      Str(<<"(", "color", "=">>),
      LDAPCriteria("color", "blue"),
      LDAPFilter(<<LDAPCriteria("color", "red"), LDAPCriteria("size", "big")>>),
      SomeOtherObject }

\* The service properties handed to matches()
ServiceValues(key) ==
    IF key = OBJECTCLASS THEN Specifications
    ELSE IF key = "color" THEN {"red", "blue"}
    ELSE {"big"}

ServiceProperties ==
    UNION { { m \in [D -> Specifications \cup {"red", "blue", "big"}] :
                \A k \in D : m[k] \in ServiceValues(k) } :
              D \in SUBSET {OBJECTCLASS, "color", "size"} }

\* "({0}={1})".format(OBJECTCLASS, self.specification)
SpecFilterText(specification) ==
    <<"(", OBJECTCLASS, "=", specification, ")">>

\* Requirement.set_filter: the outcome and the object as the call leaves it
Requirement_set_filter(r, props_filter) ==
    IF props_filter.t \notin {"None", "str", "LDAPCriteria", "LDAPFilter"}
    THEN [status |-> "TypeError", r |-> r]
    ELSE
    LET \* self.__original_filter = str(props_filter), or None
        r1 == [r EXCEPT !.original_filter =
                  IF props_filter.t = "None" THEN NoneValue
                  ELSE IF props_filter.t = "str" THEN props_filter
                  ELSE Str(FilterText(props_filter))]
        \* self.filter = ldapfilter.get_ldap_filter(props_filter)
        parsed == get_ldap_filter(props_filter)
    IN IF parsed.t = "ValueError"
       THEN [status |-> "ValueError", r |-> r1]
       ELSE [status |-> "ok",
             r |-> [r1 EXCEPT
                      !.filter = parsed,
                      !.full_filter =
                          combine_filters(<<Str(SpecFilterText(r.specification)),
                                            parsed>>)]]

\* Requirement.__init__: the outcome and the new object
Requirement__init__(is_str, specification, aggregate, optional, spec_filter) ==
    IF ~is_str THEN [status |-> "TypeError", r |-> {}]
    ELSE IF specification = "" THEN [status |-> "ValueError", r |-> {}]
    ELSE LET r0 == [specification   |-> specification,
                    aggregate       |-> aggregate,
                    optional        |-> optional,
                    original_filter |-> NoneValue,
                    full_filter     |-> NoneValue,
                    filter          |-> NoneValue]
             set == Requirement_set_filter(r0, spec_filter)
         IN IF set.status = "ok"
            THEN [status |-> "ok", r |-> {set.r}]
            ELSE [status |-> set.status, r |-> {}]

\* Requirement.__eq__ of two distinct objects
Requirement__eq__(a, b) ==
    /\ a.aggregate = b.aggregate
    /\ a.optional = b.optional
    /\ a.specification = b.specification
    /\ a.filter = b.filter

\* Requirement.copy
\* (faulty variant: the filter is not handed over)
Requirement_copy_noFilter(r) ==
    Requirement__init__(TRUE, r.specification, r.aggregate, r.optional,
                        NoneValue)

Requirement_copy(r) ==
    Requirement__init__(TRUE, r.specification, r.aggregate, r.optional,
                        r.original_filter)

\* Requirement.matches
\* (faulty variant: self.filter is evaluated instead of the full filter)
Requirement_matches_userFilterOnly(r, props_is_none, properties) ==
    IF props_is_none THEN FALSE
    ELSE r.filter.t = "None" \/ FilterMatches(r.filter, properties)

Requirement_matches(r, props_is_none, properties) ==
    IF props_is_none THEN FALSE
    ELSE FilterMatches(r.full_filter, properties)

NewRequirement ==
    \E spec_is_string \in BOOLEAN, specification \in Specifications \cup {""},
       aggregate \in BOOLEAN, optional \in BOOLEAN,
       spec_filter \in FilterArguments :
        /\ (~spec_is_string => specification = "")
        /\ LET new == Requirement__init__(spec_is_string, specification,
                                          aggregate, optional, spec_filter)
           IN /\ req' = IF new.status = "ok" THEN new.r ELSE req
              /\ clean' = IF new.status = "ok" THEN TRUE ELSE clean
              /\ lastOp' = [op |-> "Requirement", status |-> new.status]
        /\ UNCHANGED <<ctxVars, facVars>>

SetFilter ==
    \E r \in req, props_filter \in FilterArguments :
        LET set == Requirement_set_filter(r, props_filter)
        IN /\ req' = {set.r}
           /\ clean' = (set.status = "ok")
           /\ lastOp' = [op |-> "set_filter", status |-> set.status,
                         unchanged |-> set.r = r]
           /\ UNCHANGED <<ctxVars, facVars>>

Matches ==
    \E r \in req, props_is_none \in BOOLEAN, properties \in ServiceProperties :
        /\ (props_is_none => properties = EmptyDict)
        /\ lastOp' = [op |-> "matches",
                      props_is_none |-> props_is_none,
                      properties |-> properties,
                      result |-> Requirement_matches(r, props_is_none,
                                                     properties)]
        /\ UNCHANGED <<req, clean, ctxVars, facVars>>

Copy ==
    \E r \in req :
        LET new == Requirement_copy(r)
        IN /\ lastOp' = [op |-> "copy", status |-> new.status,
                         copy |-> new.r,
                         equal |-> \E c \in new.r : Requirement__eq__(r, c)]
           /\ UNCHANGED <<req, clean, ctxVars, facVars>>

-----------------------------------------------------------------------------

InitComponent ==
    /\ callerProps = EmptyDict
    /\ component = {}
    /\ call = NoCall

\* FactoryContext.__init__ (the handler store and the bundle context), with
\* every thread idle
InitFactory ==
    /\ handlers = EmptyDict
    /\ bundle_context = None
    /\ pc = [t \in Threads |-> "idle"]
    /\ frame = [t \in Threads |-> NoFrame]
    /\ lastRet = NoRet
    /\ first = [id \in HandlerIds |-> "no call"]
    /\ got = [id \in HandlerIds |-> {}]
    /\ setSeen = [id \in HandlerIds |-> FALSE]
    /\ bc_stores = <<>>

InitRequirement ==
    /\ req = {}
    /\ clean = TRUE
    /\ lastOp = [op |-> "none"]

Init ==
    /\ FactoryContext__init__
    /\ InitComponent
    /\ InitFactory
    /\ InitRequirement

NextCtx ==
    \/ \E k \in PropKeys, v \in PropVals : SetDefaultProperty(k, v)
    \/ Complete
    \/ Create

NextHandlers ==
    \/ \E t \in Threads, id \in HandlerIds, default \in Confs :
          CallGetHandler(t, id, default)
    \/ \E t \in Threads, id \in HandlerIds : CallComponentGetHandler(t, id)
    \/ \E t \in Threads : GetHandler(t)
    \/ \E t \in Threads, id \in HandlerIds, conf \in Confs :
          SetHandler(t, id, conf)

NextBundle ==
    \/ \E t \in Threads, ctx \in BundleContexts \cup {NotABundleContext} :
          SetBundleContextCheck(t, ctx)
    \/ \E t \in Threads : SetBundleContextAssign(t)
    \/ \E t \in Threads : GetBundleContext(t)

NextRequirement ==
    \/ NewRequirement
    \/ SetFilter
    \/ Matches
    \/ Copy

Next ==
    \/ NextCtx
    \/ NextHandlers
    \/ NextBundle
    \/ NextRequirement

Spec == Init /\ [][Next]_vars

(* The three classes share no field, and neither do the handler store and  *)
(* the bundle context of a FactoryContext: each part is checked under the  *)
(* specification that runs its operations alone.                           *)
SpecCtx == Init /\ [][NextCtx]_vars

SpecHandlers == Init /\ [][NextHandlers]_vars

SpecBundle == Init /\ [][NextBundle]_vars

SpecRequirement == Init /\ [][NextRequirement]_vars

-----------------------------------------------------------------------------
(* Claims about ComponentContext *)

\* C1: the context created by ComponentContext(F, n, P) has
\* properties[IPOPO_INSTANCE_NAME] = n, whatever P and the factory defaults
\* hold under that key.
C1_InstanceNameForced ==
    (call.op = "ComponentContext" /\ call.status = "ok") =>
        \A c \in component :
            /\ c.name = call.name
            /\ IPOPO_INSTANCE_NAME \in DOMAIN c.properties
            /\ c.properties[IPOPO_INSTANCE_NAME] = call.name

C1_Witness ==
    /\ call.op = "ComponentContext"
    /\ call.status = "ok"
    /\ component # {}
    /\ IPOPO_INSTANCE_NAME \in DOMAIN call.properties
    /\ call.properties[IPOPO_INSTANCE_NAME] # call.name
    /\ IPOPO_INSTANCE_NAME \in DOMAIN call.fc_properties
    /\ call.fc_properties[IPOPO_INSTANCE_NAME] # call.name

\* C2: ComponentContext(F, n, P) never mutates the caller's dict P: after
\* the call it has the keys and values it had before.
C2_CallerMapNotMutated ==
    (call.op = "ComponentContext" /\ call.status = "ok") => callerProps = call.properties

\* C8 (as claimed): the construction fails, creating no context, whenever F
\* is not a completed FactoryContext or P is not a dict.
C8_FailsUnlessCompleted ==
    (/\ call.op = "ComponentContext"
     /\ \/ ~call.fc_is_factory
        \/ ~call.fc_completed
        \/ ~call.props_is_dict)
    => (call.status # "ok" /\ component = {})

\* C8 (amended): the construction fails with AssertionError, creating no
\* context and touching nothing, exactly when F is not a FactoryContext or P
\* is not a dict; FactoryContext.completed is not looked at.
C8_FailsOnWrongTypes ==
    call.op = "ComponentContext" =>
        /\ (call.status = "AssertionError")
              <=> (~call.fc_is_factory \/ ~call.props_is_dict)
        /\ call.status \in {"ok", "AssertionError"}
        /\ call.status = "AssertionError" =>
              /\ component = {}
              /\ callerProps = call.properties
              /\ call.fc_properties_after = call.fc_properties

C8_Witness ==
    /\ call.op = "ComponentContext"
    /\ call.status = "AssertionError"
    /\ call.fc_is_factory
    /\ call.fc_completed
    /\ ~call.props_is_dict

\* C10: the properties of the created context are the factory defaults
\* overlaid by P, then IPOPO_INSTANCE_NAME set to n; no other key exists,
\* and the factory's own properties are left as they were.
C10_ResolvedProperties ==
    (call.op = "ComponentContext" /\ call.status = "ok") =>
        /\ call.fc_properties_after = call.fc_properties
        /\ \A c \in component :
            /\ DOMAIN c.properties =
                  DOMAIN call.fc_properties \cup DOMAIN call.properties
                    \cup {IPOPO_INSTANCE_NAME}
            /\ \A k \in DOMAIN c.properties :
                  c.properties[k] =
                    IF k = IPOPO_INSTANCE_NAME THEN call.name
                    ELSE IF k \in DOMAIN call.properties
                         THEN call.properties[k]
                         ELSE call.fc_properties[k]

C10_Witness ==
    /\ call.op = "ComponentContext"
    /\ call.status = "ok"
    /\ component # {}
    /\ "level" \in DOMAIN call.properties
    /\ "level" \in DOMAIN call.fc_properties
    /\ call.properties["level"] # call.fc_properties["level"]
    /\ "color" \in DOMAIN call.fc_properties
    /\ "color" \notin DOMAIN call.properties

-----------------------------------------------------------------------------
(* Claims about FactoryContext *)

\* C3: get_handler is a sticky insert-on-miss: as long as set_handler has
\* not been called for an id, every get_handler for it returns the default
\* of the first get_handler for it, and a get_handler for an id that is
\* present leaves the handler store as it was.
C3_StickyInsertOnMiss ==
    lastRet.op = "get_handler" =>
        /\ ~setSeen[lastRet.id] => lastRet.value = first[lastRet.id]
        /\ lastRet.present => lastRet.unchanged

C3_Witness ==
    /\ lastRet.op = "get_handler"
    /\ ~setSeen[lastRet.id]
    /\ lastRet.present
    /\ lastRet.differs

\* C4: set_bundle_context is first-writer-wins under every interleaving: at
\* most one call stores its argument, and the bundle context, once set, keeps
\* the value first stored.
C4_FirstWriterWins ==
    /\ Len(bc_stores) <= 1
    /\ bundle_context # None => bundle_context = bc_stores[1]

\* C5: concurrent first accesses to the handler store do not race: for an id
\* that set_handler never touched, all get_handler calls of all threads
\* return one single value, and that value is the one stored under the id.
C5_RaceFreeFirstAccess ==
    \A id \in HandlerIds :
        (~setSeen[id] /\ got[id] # {}) =>
            /\ Cardinality(got[id]) = 1
            /\ id \in DOMAIN handlers
            /\ got[id] = {handlers[id]}

C5_Witness ==
    /\ lastRet.op = "get_handler"
    /\ ~setSeen[lastRet.id]
    /\ lastRet.raced
    /\ lastRet.differs

-----------------------------------------------------------------------------
(* Claims about Requirement *)

\* C6: set_filter replaces the original filter text and the derived filters
\* together or not at all: after any call, failing ones included, the text
\* kept is one that parses, filter and full_filter are the ones derived from
\* it, and a failing call has left the object as it was.
C6_FilterReplacedAtomically ==
    /\ \A r \in req :
          LET parsed == get_ldap_filter(r.original_filter)
          IN /\ parsed.t # "ValueError"
             /\ r.filter = parsed
             /\ r.full_filter =
                   combine_filters(<<Str(SpecFilterText(r.specification)),
                                     parsed>>)
    /\ (lastOp.op = "set_filter" /\ lastOp.status # "ok") => lastOp.unchanged

\* C7: for a Requirement with a user filter F, matches(p) is true exactly
\* when p[OBJECTCLASS] is the specification and F matches p.
C7_MatchesTypeTagAndFilter ==
    (lastOp.op = "matches" /\ ~lastOp.props_is_none) =>
        \A r \in req :
            r.filter.t # "None" =>
                (lastOp.result <=>
                    /\ OBJECTCLASS \in DOMAIN lastOp.properties
                    /\ lastOp.properties[OBJECTCLASS] = r.specification
                    /\ FilterMatches(r.filter, lastOp.properties))

C7_Witness ==
    /\ lastOp.op = "matches"
    /\ ~lastOp.props_is_none
    /\ ~lastOp.result
    /\ \E r \in req :
          /\ r.filter.t # "None"
          /\ FilterMatches(r.filter, lastOp.properties)
          /\ OBJECTCLASS \in DOMAIN lastOp.properties
          /\ lastOp.properties[OBJECTCLASS] # r.specification

=============================================================================
